---- MODULE Spec2Model ----
(***************************************************************************)
(* A model of the FRUSA-OpenAlex career-sequence pipeline:                 *)
(*   process_authors.py      chunked ingestion, per-author aggregation,    *)
(*                           stable sort by year and serialization         *)
(*   visualize_migration.py  classify_career over a serialized sequence,   *)
(*                           the cohort summary of create_migration_visual *)
(*   filter_phd_authors.py,  the two scans for a sequence's first country  *)
(*   mark_french_phd_authors.py   and TokenBucketRateLimiter (acquire,     *)
(*                           wait_for_token), main and its cleanup         *)
(*                                                                         *)
(* Python strings are sequences of one-character strings, so that strip,   *)
(* split, join and the brace-removing regex act on characters as the code  *)
(* does.  A missing cell (pandas NaN) is the one-element sequence NaN,     *)
(* which no character sequence equals.                                     *)
(***************************************************************************)
EXTENDS Integers, Sequences, FiniteSets, TLC

VARIABLES
    rows,                  \* the input file's data rows, as read_csv delivers them
    chunk_size,            \* rows per chunk (the code's 1_000_000, scaled down)
    pos,                   \* rows the chunk iterator has delivered so far
    author_data,           \* the defaultdict, as a list of items in insertion order
    total_rows_processed,  \* the running count the code prints
    built,                 \* items of author_data the final loop has handled
    final_results,         \* the list of output rows
    output_file,           \* the rows written by to_csv, or NotWritten
    pc,                    \* "reading", "aggregating", "done", "failed", "idle"
    exit_status,           \* -1 while running, then the process's exit status
    entries,               \* classifier input: the country-field values joined
    sequence,              \* classifier input: the country_codes_sequence string
    category,              \* classify_career's return value, or NotCalled
    first_main,            \* first_country of filter_phd_authors.main, or NotScanned
    first_urls,            \* first_country of prepare_author_urls, or NotScanned
    vdf,                   \* create_migration_visual: df as read from the input file
    vpc,                   \* "start", "post_1990", "starters", "classified",
                           \* "percentages", "reindexed", "exit", "idle"
    df_post_1990,          \* the rows kept by the year filter, with min_year
    fr_starters,           \* the rows kept by both filters, with their category
    cohort_trends,         \* the table of counts per start year and category
    cohort_percentages,    \* the table of percentages, after reindex
    tokens,                \* TokenBucketRateLimiter.tokens, in 1/TicksPerSecond of a token
    last_update,           \* TokenBucketRateLimiter.last_update, in ticks
    now,                   \* the clock time.time() reads, in ticks
    grants,                \* the tokens acquire has granted at each tick so far
    last_call,             \* the latest acquire call: state before, request, result
    wpc,                   \* wait_for_token: where each thread stands in its call
    wn,                    \* wait_for_token: the tokens each thread asks for
    wsleep,                \* wait_for_token: the argument of each thread's sleep in progress
    wtaken,                \* wait_for_token: the tokens deducted for each thread's call
    files,                 \* mark_french_phd_authors.main: the intermediate files on disk
    mpc,                   \* main: the step it is at, "returned", or "idle"
    keep_temp,             \* main: args.keep_temp
    main_status            \* main: its return value, -1 before it returns

pipeVars == <<rows, chunk_size, pos, author_data, total_rows_processed, built,
              final_results, output_file, pc, exit_status>>
clsVars == <<entries, sequence, category>>
scanVars == <<first_main, first_urls>>
visVars == <<vdf, vpc, df_post_1990, fr_starters, cohort_trends, cohort_percentages>>
limVars == <<tokens, last_update, now, grants, last_call>>
waitVars == <<wpc, wn, wsleep, wtaken>>
mainVars == <<files, mpc, keep_temp, main_status>>
vars == <<pipeVars, clsVars, scanVars, visVars, limVars, waitVars, mainVars>>

---------------------------------------------------------------------------
(* Bounds of the model.                                                    *)

MaxRows == 3
MaxChunk == 3
MaxEntries == 3

---------------------------------------------------------------------------
(* Python string operations, on character sequences.                       *)

NaN == <<"nan">>
NotWritten == <<[written |-> FALSE]>>
NotCalled == "not called"
NotComputed == <<"not computed">>
NoCall == [thread |-> "none", tokens |-> 0, last_update |-> 0, at |-> 0,
           n |-> 0, ok |-> FALSE]

NotScanned == <<"not scanned">>

Min(a, b) == IF a < b THEN a ELSE b

Drop(s, n) == SubSeq(s, n + 1, Len(s))

StartsWith(s, p) == Len(s) >= Len(p) /\ SubSeq(s, 1, Len(p)) = p

IsSpace(c) == c \in {" ", "\t", "\n"}

RECURSIVE LStrip(_)
LStrip(s) == IF s # <<>> /\ IsSpace(Head(s)) THEN LStrip(Tail(s)) ELSE s

RECURSIVE RStrip(_)
RStrip(s) ==
    IF s # <<>> /\ IsSpace(s[Len(s)]) THEN RStrip(SubSeq(s, 1, Len(s) - 1)) ELSE s

\* str.strip()
Strip(s) == RStrip(LStrip(s))

\* str.split(sep): the list of the pieces between the non-overlapping
\* occurrences of sep, scanned left to right; never an empty list.
RECURSIVE SplitFrom(_, _, _)
SplitFrom(s, sep, cur) ==
    IF s = <<>> THEN <<cur>>
    ELSE IF StartsWith(s, sep) THEN <<cur>> \o SplitFrom(Drop(s, Len(sep)), sep, <<>>)
    ELSE SplitFrom(Tail(s), sep, Append(cur, Head(s)))

Split(s, sep) == SplitFrom(s, sep, <<>>)

\* sep.join(list)
RECURSIVE Join(_, _)
Join(list, sep) ==
    IF list = <<>> THEN <<>>
    ELSE IF Len(list) = 1 THEN list[1]
    ELSE list[1] \o sep \o Join(Tail(list), sep)

Arrow == <<" ", "-", ">", " ">>
Comma == <<",">>

Digits == <<"0", "1", "2", "3", "4", "5", "6", "7", "8", "9">>

IsDigit(c) == \E d \in 1..10 : Digits[d] = c

DigitVal(c) == (CHOOSE d \in 1..10 : Digits[d] = c) - 1

IsDigits(s) == s # <<>> /\ \A i \in 1..Len(s) : IsDigit(s[i])

RECURSIVE DigitsToInt(_)
DigitsToInt(s) ==
    IF s = <<>> THEN 0
    ELSE 10 * DigitsToInt(SubSeq(s, 1, Len(s) - 1)) + DigitVal(s[Len(s)])

\* str(n) for an integer n >= 0
RECURSIVE IntToStr(_)
IntToStr(n) ==
    IF n < 10 THEN <<Digits[n + 1]>>
    ELSE Append(IntToStr(n \div 10), Digits[(n % 10) + 1])

---------------------------------------------------------------------------
(* The cleaning of one chunk (process_authors.py, lines 42-49).            *)

\* pd.to_numeric(errors='coerce') on one cell: an integer literal, a decimal
\* literal, "inf", or NaN for a missing cell and for anything else.  (Signs,
\* exponents and surrounding blanks, which to_numeric also reads, are not
\* among the inputs modelled.)
to_numeric(s) ==
    IF s = NaN THEN [kind |-> "nan", ip |-> 0]
    ELSE IF IsDigits(s) THEN [kind |-> "int", ip |-> DigitsToInt(s)]
    ELSE IF s = <<"i", "n", "f">> THEN [kind |-> "inf", ip |-> 0]
    ELSE LET parts == Split(s, <<".">>) IN
         IF Len(parts) = 2 /\ IsDigits(parts[1]) /\ IsDigits(parts[2])
         THEN [kind |-> "float", ip |-> DigitsToInt(parts[1])]
         ELSE [kind |-> "nan", ip |-> 0]

\* A dropna over all three columns.
KeptByDropnaAllColumns(row) ==
    /\ row.author_id # NaN
    /\ to_numeric(row.publication_year).kind # "nan"
    /\ row.country_codes # NaN

\* chunk.dropna(subset=['author_id', 'publication_year']): the row is kept.
KeptByDropna(row) ==
    row.author_id # NaN /\ to_numeric(row.publication_year).kind # "nan"

\* astype('int32') raises on a non-finite value; the whole call then ends in
\* the except branch.
AstypeRaises(chunk) ==
    \E i \in 1..Len(chunk) :
        KeptByDropna(chunk[i]) /\ to_numeric(chunk[i].publication_year).kind = "inf"

\* astype('int32') on a finite value: a float is truncated.
astype_int32(num) == num.ip

\* fillna('<empty>').str.replace('[{}]', '', regex=True)
EmptyMarker == <<"<", "e", "m", "p", "t", "y", ">">>

\* A character class that also takes the commas out.
RemoveBracesAndCommas(s) == SelectSeq(s, LAMBDA c : c \notin {"{", "}", ","})

RemoveBraces(s) == SelectSeq(s, LAMBDA c : c \notin {"{", "}"})

\* A fillna that leaves a blank instead of the marker.
clean_country_codes_blank(cell) == RemoveBraces(IF cell = NaN THEN <<>> ELSE cell)

clean_country_codes(cell) == RemoveBraces(IF cell = NaN THEN EmptyMarker ELSE cell)

\* The tuple (publication_year, country_codes) the row contributes.
RecordOf(row) ==
    [year |-> astype_int32(to_numeric(row.publication_year)),
     cc |-> clean_country_codes(row.country_codes)]

---------------------------------------------------------------------------
(* Aggregation into the dictionary (lines 51-53).                          *)

HasKey(ad, id) == \E i \in 1..Len(ad) : ad[i].author_id = id

KeyIndex(ad, id) == CHOOSE i \in 1..Len(ad) : ad[i].author_id = id

\* An aggregation that assigns the record instead of appending it.
AppendRecordOverwrite(ad, id, rec) ==
    IF HasKey(ad, id)
    THEN [ad EXCEPT ![KeyIndex(ad, id)].records = <<rec>>]
    ELSE Append(ad, [author_id |-> id, records |-> <<rec>>])

\* author_data[row.author_id].append((year, country_codes)) on a defaultdict
AppendRecord(ad, id, rec) ==
    IF HasKey(ad, id)
    THEN [ad EXCEPT ![KeyIndex(ad, id)].records = Append(@, rec)]
    ELSE Append(ad, [author_id |-> id, records |-> <<rec>>])

\* An iteration that takes the rows of a chunk from the last to the first.
RECURSIVE AggregateChunkReversed(_, _)
AggregateChunkReversed(ad, chunk) ==
    IF chunk = <<>> THEN ad
    ELSE LET last == chunk[Len(chunk)]
             rest == SubSeq(chunk, 1, Len(chunk) - 1)
         IN  IF KeptByDropna(last)
             THEN AggregateChunkReversed(AppendRecord(ad, last.author_id, RecordOf(last)), rest)
             ELSE AggregateChunkReversed(ad, rest)

\* for row in chunk.itertuples(index=False), lines 52-53
RECURSIVE AggregateChunk(_, _)
AggregateChunk(ad, chunk) ==
    IF chunk = <<>> THEN ad
    ELSE IF KeptByDropna(Head(chunk))
    THEN AggregateChunk(AppendRecord(ad, Head(chunk).author_id, RecordOf(Head(chunk))),
                        Tail(chunk))
    ELSE AggregateChunk(ad, Tail(chunk))

RECURSIVE CountKept(_)
CountKept(chunk) ==
    IF chunk = <<>> THEN 0
    ELSE (IF KeptByDropna(Head(chunk)) THEN 1 ELSE 0) + CountKept(Tail(chunk))

---------------------------------------------------------------------------
(* The final loop (lines 61-72).                                           *)

\* A sort that puts a record before the records of its own year.
RECURSIVE InsertByYearUnstable(_, _)
InsertByYearUnstable(sorted, rec) ==
    IF sorted = <<>> THEN <<rec>>
    ELSE IF Head(sorted).year < rec.year
    THEN <<Head(sorted)>> \o InsertByYearUnstable(Tail(sorted), rec)
    ELSE <<rec>> \o sorted

\* list.sort(key=lambda x: x[0]): a stable sort by year.  InsertByYear puts
\* a record after every record whose year is not greater.
RECURSIVE InsertByYear(_, _)
InsertByYear(sorted, rec) ==
    IF sorted = <<>> THEN <<rec>>
    ELSE IF Head(sorted).year <= rec.year
    THEN <<Head(sorted)>> \o InsertByYear(Tail(sorted), rec)
    ELSE <<rec>> \o sorted

RECURSIVE SortByYear(_)
SortByYear(records) ==
    IF records = <<>> THEN <<>>
    ELSE InsertByYear(SortByYear(SubSeq(records, 1, Len(records) - 1)),
                      records[Len(records)])

pub_year_seq(records) ==
    Join([i \in 1..Len(records) |-> IntToStr(records[i].year)], Arrow)

country_seq(records) ==
    Join([i \in 1..Len(records) |-> records[i].cc], Arrow)

---------------------------------------------------------------------------
(* The inputs of the model.                                                *)

A1 == <<"A", "1">>
A2 == <<"A", "2">>
FR == <<"F", "R">>
US == <<"U", "S">>
DE == <<"D", "E">>

Y1990 == <<"1", "9", "9", "0">>
Y1991 == <<"1", "9", "9", "1">>
Y1990_5 == <<"1", "9", "9", "0", ".", "5">>
YText == <<"n", ".", "d">>
YInf == <<"i", "n", "f">>

Braced(s) == <<"{">> \o s \o <<"}">>

Row(a, y, c) == [author_id |-> a, publication_year |-> y, country_codes |-> c]

\* Rows read_csv can deliver under dtype=str: every cell is a non-empty
\* string or NaN (an empty cell is read as NaN).
RowPool ==
    { Row(A1, Y1991, Braced(FR)),
      Row(A1, Y1990, Braced(US \o Comma \o FR)),
      Row(A1, Y1991, NaN),
      Row(A2, Y1990, Braced(<<>>)),
      Row(A1, YText, Braced(FR)),
      Row(NaN, Y1991, Braced(FR)),
      Row(A2, NaN, Braced(US \o Comma \o FR)),
      Row(A1, Y1990_5, Braced(DE)),
      Row(A2, YInf, Braced(FR)) }

SeqsUpTo(S, n) == UNION { [1..k -> S] : k \in 1..n }

---------------------------------------------------------------------------
(* create_author_sequences_optimized, step by step.                        *)

NextChunk == SubSeq(rows, pos + 1, Min(pos + chunk_size, Len(rows)))

\* A chunk loop whose dictionary is keyed per chunk: each chunk starts an
\* empty one.
ProcessChunkPerBatch ==
    /\ pc = "reading"
    /\ pos < Len(rows)
    /\ ~AstypeRaises(NextChunk)
    /\ author_data' = AggregateChunk(<<>>, NextChunk)
    /\ total_rows_processed' = total_rows_processed + CountKept(NextChunk)
    /\ pos' = pos + Len(NextChunk)
    /\ pc' = IF pos' = Len(rows) THEN "aggregating" ELSE "reading"
    /\ UNCHANGED <<rows, chunk_size, built, final_results, output_file, exit_status>>
    /\ UNCHANGED <<clsVars, scanVars, visVars, limVars, waitVars, mainVars>>

\* One iteration of the chunk loop (lines 41-56).
ProcessChunk ==
    /\ pc = "reading"
    /\ pos < Len(rows)
    /\ ~AstypeRaises(NextChunk)
    /\ author_data' = AggregateChunk(author_data, NextChunk)
    /\ total_rows_processed' = total_rows_processed + CountKept(NextChunk)
    /\ pos' = pos + Len(NextChunk)
    /\ pc' = IF pos' = Len(rows) THEN "aggregating" ELSE "reading"
    /\ UNCHANGED <<rows, chunk_size, built, final_results, output_file, exit_status>>
    /\ UNCHANGED <<clsVars, scanVars, visVars, limVars, waitVars, mainVars>>

\* An iteration whose astype('int32') raises: the except branch prints the
\* error and exits with status 1 (lines 46, 85-87).
ProcessChunkRaises ==
    /\ pc = "reading"
    /\ pos < Len(rows)
    /\ AstypeRaises(NextChunk)
    /\ pc' = "failed"
    /\ exit_status' = 1
    /\ UNCHANGED <<rows, chunk_size, pos, author_data, total_rows_processed, built,
                   final_results, output_file>>
    /\ UNCHANGED <<clsVars, scanVars, visVars, limVars, waitVars, mainVars>>

\* One iteration of the loop over author_data.items() (lines 62-72).
BuildSequence ==
    /\ pc = "aggregating"
    /\ built < Len(author_data)
    /\ LET sorted == SortByYear(author_data[built + 1].records) IN
        /\ author_data' = [author_data EXCEPT ![built + 1].records = sorted]
        /\ final_results' = Append(final_results,
               [author_id |-> author_data[built + 1].author_id,
                publication_years_sequence |-> pub_year_seq(sorted),
                country_codes_sequence |-> country_seq(sorted)])
    /\ built' = built + 1
    /\ UNCHANGED <<rows, chunk_size, pos, total_rows_processed, output_file, pc,
                   exit_status>>
    /\ UNCHANGED <<clsVars, scanVars, visVars, limVars, waitVars, mainVars>>

\* output_df.to_csv(output_file) and the normal return (lines 74-80).
Save ==
    /\ pc = "aggregating"
    /\ built = Len(author_data)
    /\ output_file' = final_results
    /\ pc' = "done"
    /\ exit_status' = 0
    /\ UNCHANGED <<rows, chunk_size, pos, author_data, total_rows_processed, built,
                   final_results>>
    /\ UNCHANGED <<clsVars, scanVars, visVars, limVars, waitVars, mainVars>>

\* pd.read_csv raises FileNotFoundError, or the reader cannot be set up on
\* the file (lines 29-38); the except branches exit with status 1 (82-87).
OpenFails ==
    /\ pc = "reading"
    /\ pos = 0
    /\ pc' = "failed"
    /\ exit_status' = 1
    /\ UNCHANGED <<rows, chunk_size, pos, author_data, total_rows_processed, built,
                   final_results, output_file>>
    /\ UNCHANGED <<clsVars, scanVars, visVars, limVars, waitVars, mainVars>>

\* A handler that saves what the dictionary holds before it exits.
ReadFailsFlushing ==
    /\ pc = "reading"
    /\ 0 < pos /\ pos < Len(rows)
    /\ pc' = "failed"
    /\ exit_status' = 1
    /\ output_file' = [i \in 1..Len(author_data) |->
                          [author_id |-> author_data[i].author_id,
                           publication_years_sequence |-> pub_year_seq(author_data[i].records),
                           country_codes_sequence |-> country_seq(author_data[i].records)]]
    /\ UNCHANGED <<rows, chunk_size, pos, author_data, total_rows_processed, built,
                   final_results>>
    /\ UNCHANGED <<clsVars, scanVars, visVars, limVars, waitVars, mainVars>>

\* The chunk iterator raises on a later chunk (line 41): the except branch
\* prints the error and exits with status 1 (lines 85-87).
ReadFails ==
    /\ pc = "reading"
    /\ 0 < pos /\ pos < Len(rows)
    /\ pc' = "failed"
    /\ exit_status' = 1
    /\ UNCHANGED <<rows, chunk_size, pos, author_data, total_rows_processed, built,
                   final_results, output_file>>
    /\ UNCHANGED <<clsVars, scanVars, visVars, limVars, waitVars, mainVars>>

ClsIdle ==
    /\ entries = <<>>
    /\ sequence = <<>>
    /\ category = NotCalled

ScanIdle ==
    /\ first_main = NotScanned
    /\ first_urls = NotScanned

VisIdle ==
    /\ vdf = <<>>
    /\ vpc = "idle"
    /\ df_post_1990 = <<>>
    /\ fr_starters = <<>>
    /\ cohort_trends = NotComputed
    /\ cohort_percentages = NotComputed

LimIdle ==
    /\ tokens = 0
    /\ last_update = 0
    /\ now = 0
    /\ grants = <<>>
    /\ last_call = NoCall

WaitIdle ==
    /\ wpc = <<>>
    /\ wn = <<>>
    /\ wsleep = <<>>
    /\ wtaken = <<>>

MainIdle ==
    /\ files = {}
    /\ mpc = "idle"
    /\ keep_temp = FALSE
    /\ main_status = -1

Init ==
    /\ rows \in SeqsUpTo(RowPool, MaxRows)
    /\ chunk_size \in 1..MaxChunk
    /\ pos = 0
    /\ author_data = <<>>
    /\ total_rows_processed = 0
    /\ built = 0
    /\ final_results = <<>>
    /\ output_file = NotWritten
    /\ pc = "reading"
    /\ exit_status = -1
    /\ ClsIdle /\ ScanIdle /\ VisIdle /\ LimIdle /\ WaitIdle /\ MainIdle

Next ==
    \/ ProcessChunk
    \/ ProcessChunkRaises
    \/ BuildSequence
    \/ Save

Spec == Init /\ [][Next]_vars

\* The same run, on an input that may fail to open or to read.
NextIO ==
    \/ Next
    \/ OpenFails
    \/ ReadFails

SpecIO == Init /\ [][NextIO]_vars

---------------------------------------------------------------------------
(* classify_career (visualize_migration.py, lines 6-51).                   *)

Range(f) == { f[i] : i \in DOMAIN f }

AllCategories ==
    { "Stayed in France", "Round-trip (via US)", "Round-trip (no US)",
      "Expatriate (to US)", "Expatriate (abroad, no US)",
      "Complex/Ongoing Migration" }

\* A list of the entries that leaves the placeholder entries out.
CountriesWithoutPlaceholders(seq) ==
    LET parts == Split(seq, <<"-", ">">>)
    IN  SelectSeq([i \in 1..Len(parts) |-> Strip(parts[i])],
                  LAMBDA c : c # EmptyMarker)

\* [c.strip() for c in sequence.split('->')]
Countries(seq) ==
    LET parts == Split(seq, <<"-", ">">>) IN [i \in 1..Len(parts) |-> Strip(parts[i])]

\* 'US' in c.split(',')
HasToken(c, code) == code \in Range(Split(c, Comma))

\* A test that looks at the last entry only.
is_always_france_last(countries) ==
    countries # <<>> /\ countries[Len(countries)] = FR

\* A test that takes any entry naming 'FR' for an entry that is 'FR'.
is_always_france_contains(countries) ==
    \A i \in 1..Len(countries) : HasToken(countries[i], FR)

\* all(c == 'FR' for c in countries)
is_always_france(countries) == \A i \in 1..Len(countries) : countries[i] = FR

\* A set of the pieces as they stand, blanks included.
last_locations_untrimmed(last_location_raw) == Range(Split(last_location_raw, Comma))

\* set(c.strip() for c in last_location_raw.split(','))
last_locations(last_location_raw) ==
    { Strip(t) : t \in Range(Split(last_location_raw, Comma)) }

\* A test that looks for 'US' in the last entry only.
journey_had_us_last(countries) ==
    countries # <<>> /\ HasToken(countries[Len(countries)], US)

\* any('US' in c.split(',') for c in countries)
journey_had_us(countries) == \E i \in 1..Len(countries) : HasToken(countries[i], US)

\* Lines 34-38: the last entry is 'FR' alone.
ClassifyRoundTrip(countries) ==
    IF journey_had_us(countries) THEN "Round-trip (via US)" ELSE "Round-trip (no US)"

\* A chain of tests without the final return: Python then returns None.
ClassifyAbroadNoDefault(locations) ==
    LET is_last_in_us == US \in locations
        is_last_in_france_too == FR \in locations
    IN  IF is_last_in_us /\ ~is_last_in_france_too THEN "Expatriate (to US)"
        ELSE IF ~is_last_in_us /\ ~is_last_in_france_too
        THEN "Expatriate (abroad, no US)"
        ELSE "None"

\* Lines 41-51: the last entry is not 'FR' alone.
ClassifyAbroad(locations) ==
    LET is_last_in_us == US \in locations
        is_last_in_france_too == FR \in locations
    IN  IF is_last_in_us /\ ~is_last_in_france_too THEN "Expatriate (to US)"
        ELSE IF ~is_last_in_us /\ ~is_last_in_france_too
        THEN "Expatriate (abroad, no US)"
        ELSE "Complex/Ongoing Migration"

\* The return value for a string argument; "IndexError" stands for the
\* exception countries[-1] raises on an empty list.
ClassifyCountries(countries) ==
    IF is_always_france(countries) THEN "Stayed in France"
    ELSE IF countries = <<>> THEN "IndexError"
    ELSE LET last_location_raw == countries[Len(countries)]
             is_last_only_france == (last_location_raw = FR)
         IN  IF is_last_only_france
             THEN ClassifyRoundTrip(countries)
             ELSE ClassifyAbroad(last_locations(last_location_raw))

classify_career(seq) ==
    IF seq = NaN THEN "Invalid Sequence" ELSE ClassifyCountries(Countries(seq))

\* Values a cleaned country field takes in a sequence: single codes, lists,
\* the marker of a missing field, the empty field left of "{}", a lowercase
\* code, and fields with a blank before a code or after a comma.
EntryPool ==
    { FR, US, DE,
      FR \o Comma \o US,
      FR \o Comma \o DE,
      EmptyMarker,
      <<>>,
      <<"f", "r">>,
      <<" ">> \o FR,
      DE \o <<",", " ">> \o US }

PipeIdle ==
    /\ rows = <<>>
    /\ chunk_size = 1
    /\ pos = 0
    /\ author_data = <<>>
    /\ total_rows_processed = 0
    /\ built = 0
    /\ final_results = <<>>
    /\ output_file = NotWritten
    /\ pc = "idle"
    /\ exit_status = -1

\* The classifier's argument is a country_codes_sequence as line 66 of
\* process_authors.py builds it.
InitClassify ==
    /\ entries \in SeqsUpTo(EntryPool, MaxEntries)
    /\ sequence = Join(entries, Arrow)
    /\ category = NotCalled
    /\ PipeIdle /\ ScanIdle /\ VisIdle /\ LimIdle /\ WaitIdle /\ MainIdle

Classify ==
    /\ category = NotCalled
    /\ category' = classify_career(sequence)
    /\ UNCHANGED <<entries, sequence>>
    /\ UNCHANGED <<pipeVars, scanVars, visVars, limVars, waitVars, mainVars>>

NextClassify == Classify

SpecClassify == InitClassify /\ [][NextClassify]_vars

---------------------------------------------------------------------------
(* The scan for a sequence's first country: filter_phd_authors.py, lines   *)
(* 75-104, and mark_french_phd_authors.py, lines 96-114.                   *)

None == <<"None">>

UpperCase ==
    <<"A", "B", "C", "D", "E", "F", "G", "H", "I", "J", "K", "L", "M",
      "N", "O", "P", "Q", "R", "S", "T", "U", "V", "W", "X", "Y", "Z">>

LowerCase ==
    <<"a", "b", "c", "d", "e", "f", "g", "h", "i", "j", "k", "l", "m",
      "n", "o", "p", "q", "r", "s", "t", "u", "v", "w", "x", "y", "z">>

LowerChar(c) ==
    IF \E i \in 1..26 : UpperCase[i] = c
    THEN LowerCase[CHOOSE i \in 1..26 : UpperCase[i] = c]
    ELSE c

\* str.lower()
Lower(s) == [i \in 1..Len(s) |-> LowerChar(s[i])]

empty_lower == <<"e", "m", "p", "t", "y">>

\* pd.read_csv on a cell of the sequences file: an empty cell is NaN.
ReadBack(cell) == IF cell = <<>> THEN NaN ELSE cell

\* A loop that compares the entry itself with the placeholders.
RECURSIVE ScanMainCaseSensitive(_)
ScanMainCaseSensitive(countries) ==
    IF countries = <<>> THEN None
    ELSE LET country == Head(countries) IN
         IF country # <<>> /\ country # empty_lower /\ country # EmptyMarker
         THEN Strip(Split(country, Comma)[1])
         ELSE ScanMainCaseSensitive(Tail(countries))

\* filter_phd_authors.main, lines 88-96: the loop over countries.
RECURSIVE ScanMain(_)
ScanMain(countries) ==
    IF countries = <<>> THEN None
    ELSE LET country == Head(countries)
             country_lower == Lower(country)
         IN  IF country # <<>> /\ country_lower # empty_lower /\ country_lower # EmptyMarker
             THEN Strip(Split(country, Comma)[1])
             ELSE ScanMain(Tail(countries))

\* filter_phd_authors.main, lines 75-96; a row the guard of line 78 skips has
\* no first country.
first_country_main(country_sequence) ==
    IF country_sequence = NaN \/ country_sequence = <<>> THEN None
    ELSE LET parts == Split(country_sequence, Arrow)
         IN  ScanMain([i \in 1..Len(parts) |-> Strip(parts[i])])

\* prepare_author_urls, lines 108-111: the loop over countries.
RECURSIVE ScanUrls(_)
ScanUrls(countries) ==
    IF countries = <<>> THEN None
    ELSE LET country == Head(countries) IN
         IF country # <<>> /\ Lower(country) \notin {empty_lower, EmptyMarker}
         THEN Strip(Split(country, Comma)[1])
         ELSE ScanUrls(Tail(countries))

\* prepare_author_urls, lines 96-111.
first_country_urls(cell) ==
    IF cell # NaN /\ cell # <<>>
    THEN LET parts == Split(cell, Arrow)
         IN  ScanUrls([i \in 1..Len(parts) |-> Strip(parts[i])])
    ELSE None

\* Country fields of a sequence: codes, lists, the placeholders in several
\* cases, a blank field and a list whose first piece is blank.
ScanPool ==
    { FR, US,
      FR \o Comma \o DE,
      EmptyMarker,
      <<"E", "m", "p", "t", "y">>,
      <<>>,
      Comma \o FR,
      <<"f", "r">> }

InitScan ==
    /\ entries \in SeqsUpTo(ScanPool, MaxEntries)
    /\ sequence = ReadBack(Join(entries, Arrow))
    /\ category = NotCalled
    /\ ScanIdle
    /\ PipeIdle /\ VisIdle /\ LimIdle /\ WaitIdle /\ MainIdle

RunScanMain ==
    /\ first_main = NotScanned
    /\ first_main' = first_country_main(sequence)
    /\ UNCHANGED <<first_urls, clsVars, pipeVars, visVars, limVars, waitVars, mainVars>>

RunScanUrls ==
    /\ first_urls = NotScanned
    /\ first_urls' = first_country_urls(sequence)
    /\ UNCHANGED <<first_main, clsVars, pipeVars, visVars, limVars, waitVars, mainVars>>

NextScan ==
    \/ RunScanMain
    \/ RunScanUrls

SpecScan == InitScan /\ [][NextScan]_vars

---------------------------------------------------------------------------
(* create_migration_visual (visualize_migration.py, lines 53-122), up to   *)
(* the table the plot is drawn from.                                       *)

MaxAuthors == 3

Floor == 1990

\* df['min_year'] > 1990, with the bound included.
PostFloorInclusive(min_year) == min_year >= Floor

\* df['min_year'] > 1990
PostFloor(min_year) == min_year > Floor

\* dropna(subset=['publication_years_sequence', 'country_codes_sequence'])
HasBothSequences(r) ==
    r.publication_years_sequence # NaN /\ r.country_codes_sequence # NaN

\* pd.to_numeric(df['publication_years_sequence'].str.split(' -> ').str[0],
\*               errors='coerce')
min_year_of(r) == to_numeric(Split(r.publication_years_sequence, Arrow)[1])

\* Lines 74-79: the rows that survive both dropna calls, with min_year as int.
WithMinYear(df) ==
    LET kept == SelectSeq(df, LAMBDA r : HasBothSequences(r) /\ min_year_of(r).kind # "nan")
    IN  [i \in 1..Len(kept) |->
            [min_year |-> min_year_of(kept[i]).ip,
             country_codes_sequence |-> kept[i].country_codes_sequence]]

\* df_post_1990['country_codes_sequence'].str.split(' -> ').str[0]
first_country_visual(r) == Split(r.country_codes_sequence, Arrow)[1]

\* all_categories, lines 103-110
all_categories ==
    << "Stayed in France", "Round-trip (via US)", "Round-trip (no US)",
       "Expatriate (to US)", "Expatriate (abroad, no US)",
       "Complex/Ongoing Migration" >>

RECURSIVE SumOver(_, _)
SumOver(f, S) ==
    IF S = {} THEN 0
    ELSE LET x == CHOOSE x \in S : TRUE IN f[x] + SumOver(f, S \ {x})

\* groupby('min_year')['category'].value_counts().unstack(fill_value=0): a
\* row per start year, a column per category that occurs at all.
value_counts_unstack(starters) ==
    LET years == { starters[i].min_year : i \in 1..Len(starters) }
        cols == { starters[i].category : i \in 1..Len(starters) }
    IN  [y \in years |->
            [c \in cols |->
                Cardinality({ i \in 1..Len(starters) :
                                starters[i].min_year = y /\ starters[i].category = c })]]

\* A quotient of two integers, kept exact.
Ratio(n, d) == [num |-> n, den |-> d]

\* Each count divided by the sum of the whole table.
PercentagesOfTable(trends) ==
    LET total == SumOver([y \in DOMAIN trends |-> SumOver(trends[y], DOMAIN trends[y])],
                         DOMAIN trends)
    IN  [y \in DOMAIN trends |->
            [c \in DOMAIN trends[y] |-> Ratio(trends[y][c] * 100, total)]]

\* cohort_trends.div(cohort_trends.sum(axis=1), axis=0) * 100
Percentages(trends) ==
    [y \in DOMAIN trends |->
        [c \in DOMAIN trends[y] |->
            Ratio(trends[y][c] * 100, SumOver(trends[y], DOMAIN trends[y]))]]

\* cohort_percentages.reindex(columns=all_categories, fill_value=0)
Reindex(table) ==
    [y \in DOMAIN table |->
        [c \in Range(all_categories) |->
            IF c \in DOMAIN table[y] THEN table[y][c] ELSE Ratio(0, 1)]]

YRow(years, codes) ==
    [publication_years_sequence |-> years, country_codes_sequence |-> codes]

Y1992 == <<"1", "9", "9", "2">>

\* Rows of the sequences file, as pd.read_csv delivers them: years as
\* process_authors writes them; codes that start in the origin, in a list, in
\* a placeholder, elsewhere, and a missing cell.
VisRowPool ==
    { YRow(Y1990, FR),
      YRow(Y1991, FR),
      YRow(Y1992, FR),
      YRow(Y1991 \o Arrow \o Y1992, FR \o Arrow \o US),
      YRow(Y1991 \o Arrow \o Y1992, FR \o Arrow \o DE),
      YRow(Y1990 \o Arrow \o Y1991, FR \o Arrow \o US),
      YRow(Y1991 \o Arrow \o Y1992, EmptyMarker \o Arrow \o FR),
      YRow(Y1991, FR \o Comma \o DE),
      YRow(Y1991, US),
      YRow(Y1991, NaN) }

InitVisual ==
    /\ vdf \in SeqsUpTo(VisRowPool, MaxAuthors)
    /\ vpc = "start"
    /\ df_post_1990 = <<>>
    /\ fr_starters = <<>>
    /\ cohort_trends = NotComputed
    /\ cohort_percentages = NotComputed
    /\ PipeIdle /\ ClsIdle /\ ScanIdle /\ LimIdle /\ WaitIdle /\ MainIdle

\* Lines 74-81.
FilterPost1990 ==
    /\ vpc = "start"
    /\ df_post_1990' = SelectSeq(WithMinYear(vdf), LAMBDA r : PostFloor(r.min_year))
    /\ vpc' = "post_1990"
    /\ UNCHANGED <<vdf, fr_starters, cohort_trends, cohort_percentages>>
    /\ UNCHANGED <<pipeVars, clsVars, scanVars, limVars, waitVars, mainVars>>

\* Lines 83-88.
FilterStarters ==
    /\ vpc = "post_1990"
    /\ LET kept == SelectSeq(df_post_1990, LAMBDA r : first_country_visual(r) = FR)
       IN  /\ fr_starters' = [i \in 1..Len(kept) |->
                                [min_year |-> kept[i].min_year,
                                 country_codes_sequence |-> kept[i].country_codes_sequence,
                                 category |-> NotCalled]]
           /\ vpc' = IF kept = <<>> THEN "exit" ELSE "starters"
    /\ UNCHANGED <<vdf, df_post_1990, cohort_trends, cohort_percentages>>
    /\ UNCHANGED <<pipeVars, clsVars, scanVars, limVars, waitVars, mainVars>>

\* Lines 91-94.
ClassifyStarters ==
    /\ vpc = "starters"
    /\ LET classified ==
               [i \in 1..Len(fr_starters) |->
                   [fr_starters[i] EXCEPT
                       !.category = classify_career(fr_starters[i].country_codes_sequence)]]
       IN  /\ fr_starters' = classified
           /\ cohort_trends' = value_counts_unstack(classified)
    /\ vpc' = "classified"
    /\ UNCHANGED <<vdf, df_post_1990, cohort_percentages>>
    /\ UNCHANGED <<pipeVars, clsVars, scanVars, limVars, waitVars, mainVars>>

\* Line 97.
ComputePercentages ==
    /\ vpc = "classified"
    /\ cohort_percentages' = Percentages(cohort_trends)
    /\ vpc' = "percentages"
    /\ UNCHANGED <<vdf, df_post_1990, fr_starters, cohort_trends>>
    /\ UNCHANGED <<pipeVars, clsVars, scanVars, limVars, waitVars, mainVars>>

\* Line 122.
ReindexColumns ==
    /\ vpc = "percentages"
    /\ cohort_percentages' = Reindex(cohort_percentages)
    /\ vpc' = "reindexed"
    /\ UNCHANGED <<vdf, df_post_1990, fr_starters, cohort_trends>>
    /\ UNCHANGED <<pipeVars, clsVars, scanVars, limVars, waitVars, mainVars>>

NextVisual ==
    \/ FilterPost1990
    \/ FilterStarters
    \/ ClassifyStarters
    \/ ComputePercentages
    \/ ReindexColumns

SpecVisual == InitVisual /\ [][NextVisual]_vars

---------------------------------------------------------------------------
(* TokenBucketRateLimiter (mark_french_phd_authors.py, lines 32-66), as    *)
(* THESES_LIMITER = TokenBucketRateLimiter(rate=5.0, capacity=8).          *)
(* The clock is read in ticks, TicksPerSecond to the second, and does not  *)
(* go back; tokens are counted in 1/TicksPerSecond of a token, so that     *)
(* elapsed * rate is an integer: elapsed ticks times Rate.                 *)

Rate == 5

Capacity == 8

TicksPerSecond == 10

MaxTime == 5

MaxRequest == 3

Threads == {"t1", "t2"}

\* The bucket's capacity and a request of n tokens, in the unit of tokens.
capacity == Capacity * TicksPerSecond

Requested(n) == n * TicksPerSecond

\* A refill without the cap.
RefilledUncapped(tok, elapsed) == tok + elapsed * Rate

\* min(self.capacity, self.tokens + elapsed * self.rate)
Refilled(tok, elapsed) == Min(capacity, tok + elapsed * Rate)

InitLimiter ==
    /\ tokens = capacity
    /\ last_update = 0
    /\ now = 0
    /\ grants = [t \in 0..MaxTime |-> 0]
    /\ last_call = NoCall
    /\ PipeIdle /\ ClsIdle /\ ScanIdle /\ VisIdle /\ WaitIdle /\ MainIdle

\* The clock advances.
Tick ==
    /\ now < MaxTime
    /\ now' = now + 1
    /\ UNCHANGED <<tokens, last_update, grants, last_call>>
    /\ UNCHANGED <<pipeVars, clsVars, scanVars, visVars, waitVars, mainVars>>

\* acquire(n) by thread t: the body runs under self.lock, so as one step.
Acquire(t, n) ==
    LET elapsed == now - last_update
        refilled == Refilled(tokens, elapsed)
        ok == refilled >= Requested(n)
    IN  /\ tokens' = IF ok THEN refilled - Requested(n) ELSE refilled
        /\ last_update' = now
        /\ grants' = IF ok THEN [grants EXCEPT ![now] = @ + n] ELSE grants
        /\ last_call' = [thread |-> t, tokens |-> tokens, last_update |-> last_update,
                         at |-> now, n |-> n, ok |-> ok]
        /\ UNCHANGED now
        /\ UNCHANGED <<pipeVars, clsVars, scanVars, visVars, waitVars, mainVars>>

NextLimiter ==
    \/ Tick
    \/ \E t \in Threads, n \in 1..MaxRequest : Acquire(t, n)

SpecLimiter == InitLimiter /\ [][NextLimiter]_vars

---------------------------------------------------------------------------
(* TokenBucketRateLimiter.wait_for_token (mark_french_phd_authors.py,      *)
(* lines 68-79), called by the threads of Threads on THESES_LIMITER.       *)
(* The code uses only differences of clock readings, so here the clock is  *)
(* kept relative to the latest update: a call of acquire leaves now and    *)
(* last_update at 0, and the clock need not count beyond the time the      *)
(* bucket takes to fill.  The argument of sleep is kept in units of        *)
(* 1 / (100 * TicksPerSecond * Rate) of a second, which makes it an        *)
(* integer.                                                                *)

\* The ticks after which the bucket is full whatever it held.
Saturation == (capacity + Rate - 1) \div Rate

\* One tick of the clock, in the unit of the argument of sleep.
OneTick == 100 * Rate

\* min(wait_time + 0.01, 0.1), wait_time = tokens_needed / self.rate
sleep_argument(tokens_needed) ==
    Min(100 * tokens_needed + TicksPerSecond * Rate, 10 * TicksPerSecond * Rate)

InitWait ==
    /\ tokens = capacity
    /\ last_update = 0
    /\ now = 0
    /\ grants = <<>>
    /\ last_call = NoCall
    /\ wpc = [t \in Threads |-> "idle"]
    /\ wn = [t \in Threads |-> 0]
    /\ wsleep = [t \in Threads |-> 0]
    /\ wtaken = [t \in Threads |-> 0]
    /\ PipeIdle /\ ClsIdle /\ ScanIdle /\ VisIdle /\ MainIdle

\* The clock advances; a sleeping thread has slept through a tick.
TickWait ==
    /\ now' = IF now - last_update < Saturation THEN now + 1 ELSE now
    /\ wpc' = [t \in Threads |-> IF wpc[t] = "sleeping" THEN "slept" ELSE wpc[t]]
    /\ UNCHANGED <<tokens, last_update, grants, last_call, wn, wsleep, wtaken>>
    /\ UNCHANGED <<pipeVars, clsVars, scanVars, visVars, mainVars>>

\* Thread t calls wait_for_token(n).
CallWait(t, n) ==
    /\ wpc[t] \in {"idle", "returned"}
    /\ wpc' = [wpc EXCEPT ![t] = "acquire"]
    /\ wn' = [wn EXCEPT ![t] = n]
    /\ wtaken' = [wtaken EXCEPT ![t] = 0]
    /\ UNCHANGED <<tokens, last_update, now, grants, last_call, wsleep>>
    /\ UNCHANGED <<pipeVars, clsVars, scanVars, visVars, mainVars>>

\* Line 72: self.acquire(tokens), its body under the lock (lines 56-66).
WaitAcquire(t) ==
    /\ wpc[t] = "acquire"
    /\ LET elapsed == now - last_update
           refilled == Refilled(tokens, elapsed)
           ok == refilled >= Requested(wn[t])
       IN  /\ tokens' = IF ok THEN refilled - Requested(wn[t]) ELSE refilled
           /\ wtaken' = IF ok THEN [wtaken EXCEPT ![t] = @ + wn[t]] ELSE wtaken
           /\ wpc' = [wpc EXCEPT ![t] = IF ok THEN "returned" ELSE "failed"]
    /\ last_update' = 0
    /\ now' = 0
    /\ UNCHANGED <<grants, last_call, wn, wsleep>>
    /\ UNCHANGED <<pipeVars, clsVars, scanVars, visVars, mainVars>>

\* Lines 74-79: under the lock, tokens_needed and wait_time; then the call
\* of time.sleep, which raises ValueError on a negative argument.
WaitCompute(t) ==
    /\ wpc[t] = "failed"
    /\ LET tokens_needed == Requested(wn[t]) - tokens
           argument == sleep_argument(tokens_needed)
       IN  /\ wsleep' = [wsleep EXCEPT ![t] = argument]
           /\ wpc' = [wpc EXCEPT ![t] = IF argument < 0 THEN "raised" ELSE "sleeping"]
    /\ UNCHANGED <<tokens, last_update, now, grants, last_call, wn, wtaken>>
    /\ UNCHANGED <<pipeVars, clsVars, scanVars, visVars, mainVars>>

\* time.sleep returns: a sleep of a whole tick after a tick, a shorter one
\* at any time.  The loop goes back to line 72.
WakeUp(t) ==
    /\ \/ wpc[t] = "slept"
       \/ wpc[t] = "sleeping" /\ wsleep[t] < OneTick
    /\ wpc' = [wpc EXCEPT ![t] = "acquire"]
    /\ wsleep' = [wsleep EXCEPT ![t] = 0]
    /\ UNCHANGED <<tokens, last_update, now, grants, last_call, wn, wtaken>>
    /\ UNCHANGED <<pipeVars, clsVars, scanVars, visVars, mainVars>>

\* The steps of wait_for_token that thread t takes by itself.
Proceed(t) ==
    \/ WaitAcquire(t)
    \/ WaitCompute(t)
    \/ WakeUp(t)

NextWait ==
    \/ TickWait
    \/ \E t \in Threads, n \in 1..MaxRequest : CallWait(t, n)
    \/ \E t \in Threads : Proceed(t)

\* Time advances, and a thread that can take a step takes it.
SpecWait ==
    /\ InitWait
    /\ [][NextWait]_vars
    /\ WF_vars(TickWait)
    /\ \A t \in Threads : WF_vars(Proceed(t))

---------------------------------------------------------------------------
(* mark_french_phd_authors.main (lines 483-566): the six steps, their      *)
(* intermediate files and the cleanup.  What a step finds in its input,    *)
(* and what minet does, is open: every step may succeed, report nothing,   *)
(* or fail.                                                                *)

\* Lines 516-520: the five intermediate files.
TempFiles ==
    {"author_urls", "openalex_results", "names_file", "thesis_urls", "thesis_results"}

\* A step that counts (prepare_author_urls, extract_author_names,
\* prepare_thesis_urls): it writes its file and returns the count, or an
\* exception before to_csv makes it return 0 with nothing written.
CountingStep(at, file, next) ==
    /\ mpc = at
    /\ \E outcome \in {"some", "none", "error"} :
          /\ files' = IF outcome = "error" THEN files ELSE files \cup {file}
          /\ mpc' = IF outcome = "some" THEN next ELSE "returned"
          /\ main_status' = IF outcome = "some" THEN main_status ELSE 1
    /\ UNCHANGED keep_temp
    /\ UNCHANGED <<pipeVars, clsVars, scanVars, visVars, limVars, waitVars>>

\* A fetch by minet (fetch_with_minet_custom, fetch_thesis_with_minet_custom):
\* return code 0 with the file written, or a failure that may have left
\* the file or not.
FetchStep(at, file, next) ==
    /\ mpc = at
    /\ \E outcome \in {"fetched", "failed with file", "failed without file"} :
          /\ files' = IF outcome = "failed without file" THEN files ELSE files \cup {file}
          /\ mpc' = IF outcome = "fetched" THEN next ELSE "returned"
          /\ main_status' = IF outcome = "fetched" THEN main_status ELSE 1
    /\ UNCHANGED keep_temp
    /\ UNCHANGED <<pipeVars, clsVars, scanVars, visVars, limVars, waitVars>>

\* Step 1, lines 528-530.
PrepareAuthorUrls == CountingStep("step1", "author_urls", "step2")

\* Step 2, lines 532-536.
FetchAuthors == FetchStep("step2", "openalex_results", "step3")

\* Step 3, lines 538-540.
ExtractAuthorNames == CountingStep("step3", "names_file", "step4")

\* Step 4, lines 542-544.
PrepareThesisUrls == CountingStep("step4", "thesis_urls", "step5")

\* Step 5, lines 546-550.
FetchTheses == FetchStep("step5", "thesis_results", "step6")

\* Step 6, lines 552-554: analyze_thesis_results returns the statistics, or
\* {} after an exception.  Its file is the final output, not a temporary.
AnalyzeThesisResults ==
    /\ mpc = "step6"
    /\ \E outcome \in {"stats", "error"} :
          /\ mpc' = IF outcome = "stats" THEN "cleanup" ELSE "returned"
          /\ main_status' = IF outcome = "stats" THEN main_status ELSE 1
    /\ UNCHANGED <<files, keep_temp>>
    /\ UNCHANGED <<pipeVars, clsVars, scanVars, visVars, limVars, waitVars>>

\* Lines 558-566: the cleanup and return 0.
Cleanup ==
    /\ mpc = "cleanup"
    /\ files' = IF keep_temp THEN files ELSE files \ TempFiles
    /\ mpc' = "returned"
    /\ main_status' = 0
    /\ UNCHANGED keep_temp
    /\ UNCHANGED <<pipeVars, clsVars, scanVars, visVars, limVars, waitVars>>

\* A start of main; the directory may hold intermediate files of an
\* earlier run on the same input.
InitMain ==
    /\ files \in SUBSET TempFiles
    /\ mpc = "step1"
    /\ keep_temp \in BOOLEAN
    /\ main_status = -1
    /\ PipeIdle /\ ClsIdle /\ ScanIdle /\ VisIdle /\ LimIdle /\ WaitIdle

NextMain ==
    \/ PrepareAuthorUrls
    \/ FetchAuthors
    \/ ExtractAuthorNames
    \/ PrepareThesisUrls
    \/ FetchTheses
    \/ AnalyzeThesisResults
    \/ Cleanup

SpecMain == InitMain /\ [][NextMain]_vars

---------------------------------------------------------------------------
(* Reference notions the properties are stated with.                       *)

\* A row with an author and a year that reads as a number: an accepted row.
Valid(r) == r.author_id # NaN /\ to_numeric(r.publication_year).kind # "nan"

YearValue(r) == to_numeric(r.publication_year).ip

\* The accepted rows of author id, in arrival order, and their events.
RowsOf(id) == SelectSeq(rows, LAMBDA r : Valid(r) /\ r.author_id = id)

Arrival(id) == [k \in 1..Len(RowsOf(id)) |-> RecordOf(RowsOf(id)[k])]

\* An output row read back: its years and country fields, entry by entry.
OutYears(r) ==
    LET ys == Split(r.publication_years_sequence, Arrow)
    IN  [k \in 1..Len(ys) |-> DigitsToInt(ys[k])]

OutCountries(r) == Split(r.country_codes_sequence, Arrow)

OutEntries(r) ==
    [k \in 1..Len(OutYears(r)) |-> [year |-> OutYears(r)[k], cc |-> OutCountries(r)[k]]]

WellFormedOut(r) ==
    /\ \A k \in 1..Len(Split(r.publication_years_sequence, Arrow)) :
           IsDigits(Split(r.publication_years_sequence, Arrow)[k])
    /\ Len(OutYears(r)) = Len(OutCountries(r))

OfYear(evs, y) == SelectSeq(evs, LAMBDA e : e.year = y)

YearsOf(evs) == { evs[k].year : k \in 1..Len(evs) }

SortedByYear(evs) ==
    \A j, k \in 1..Len(evs) : j < k => evs[j].year <= evs[k].year

AcceptedRows == { k \in 1..Len(rows) : Valid(rows[k]) }

AcceptedIds == { rows[k].author_id : k \in AcceptedRows }

---------------------------------------------------------------------------
(* C1. Every sequence the final loop builds is sorted non-decreasing by    *)
(* year and is a stable permutation of its author's accepted events: for   *)
(* every year, the entries of that year are the author's events of that    *)
(* year in arrival order.                                                  *)
C1_SortedStablePermutation ==
    \A i \in 1..Len(final_results) :
        LET out == OutEntries(final_results[i])
            arr == Arrival(final_results[i].author_id)
        IN  /\ WellFormedOut(final_results[i])
            /\ SortedByYear(out)
            /\ \A y \in YearsOf(out) \cup YearsOf(arr) : OfYear(out, y) = OfYear(arr, y)

\* An author whose events arrive out of year order, two of them in the same
\* year with different countries, has been built.
C1_Witness ==
    \E i \in 1..Len(final_results) :
        LET arr == Arrival(final_results[i].author_id)
        IN  /\ ~SortedByYear(arr)
            /\ \E j, k \in 1..Len(arr) :
                   j < k /\ arr[j].year = arr[k].year /\ arr[j].cc # arr[k].cc

(* C2. Ingestion is independent of the chunk boundaries: once every chunk  *)
(* is consumed, the dictionary is the one a single chunk holding the whole *)
(* input gives, each author has one list, and that list holds all the      *)
(* author's events in global arrival order.                                *)
C2_BatchIndependent ==
    (pc = "aggregating" /\ built = 0) =>
        /\ author_data = AggregateChunk(<<>>, rows)
        /\ \A i, j \in 1..Len(author_data) :
               author_data[i].author_id = author_data[j].author_id => i = j
        /\ { author_data[i].author_id : i \in 1..Len(author_data) } = AcceptedIds
        /\ \A i \in 1..Len(author_data) :
               author_data[i].records = Arrival(author_data[i].author_id)

\* An author's rows came in different chunks and are all in one list.
C2_Witness ==
    /\ pc = "aggregating" /\ built = 0
    /\ chunk_size < Len(rows)
    /\ \E j, k \in AcceptedRows :
           /\ rows[j].author_id = rows[k].author_id
           /\ (j - 1) \div chunk_size # (k - 1) \div chunk_size
           /\ \E i \in 1..Len(author_data) :
                  /\ author_data[i].author_id = rows[j].author_id
                  /\ Len(author_data[i].records) >= 2

RECURSIVE TotalEntries(_)
TotalEntries(out) ==
    IF out = <<>> THEN 0
    ELSE Len(OutYears(Head(out))) + TotalEntries(Tail(out))

(* C3. After the run every accepted row has given exactly one entry to the *)
(* sequence of its author: each author's sequence has as many entries as   *)
(* the author has accepted rows, there is one output row per accepted      *)
(* author_id, and no output sequence is empty.                             *)
C3_EachRowOnce ==
    pc = "done" =>
        /\ \A i, j \in 1..Len(output_file) :
               output_file[i].author_id = output_file[j].author_id => i = j
        /\ { output_file[i].author_id : i \in 1..Len(output_file) } = AcceptedIds
        /\ \A i \in 1..Len(output_file) :
               /\ output_file[i].publication_years_sequence # <<>>
               /\ WellFormedOut(output_file[i])
               /\ Len(OutYears(output_file[i])) =
                      Cardinality({ k \in AcceptedRows :
                                      rows[k].author_id = output_file[i].author_id })
        /\ TotalEntries(output_file) = Cardinality(AcceptedRows)

\* A finished run with two authors, one of them with two rows.
C3_Witness ==
    /\ pc = "done"
    /\ Len(output_file) = 2
    /\ Cardinality(AcceptedRows) = 3

RECURSIVE TotalRecords(_)
TotalRecords(ad) ==
    IF ad = <<>> THEN 0 ELSE Len(Head(ad).records) + TotalRecords(Tail(ad))

IntegerYearRows(n) ==
    { k \in 1..n : rows[k].author_id # NaN /\ IsDigits(rows[k].publication_year) }

(* C4. A row is accepted only when its year is an integer literal and its  *)
(* author_id is present, no year is coerced, and no row aborts the run:    *)
(* the dictionary holds as many events as rows with an author and an       *)
(* integer year have been consumed, and the run never ends in failure.     *)
C4_AcceptsOnlyIntegerYears ==
    /\ pc # "failed"
    /\ pc \in {"reading", "aggregating", "done"} =>
           TotalRecords(author_data) = Cardinality(IntegerYearRows(pos))

Reported == { total_rows_processed, Len(final_results) }

(* C5. The figures a finished run has reported (the running row count and  *)
(* the number of authors) include the total of the input rows and the      *)
(* number of rows rejected.                                                *)
C5_ReportsTotalAndRejected ==
    pc = "done" =>
        /\ Len(rows) \in Reported
        /\ (Len(rows) - Cardinality(AcceptedRows)) \in Reported

(* C6. An accepted row without a country is not dropped: its author's      *)
(* output sequence is sorted by year and holds, for the row's year, as     *)
(* many '<empty>' entries as the author has accepted rows of that year     *)
(* without a country.                                                      *)
C6_EmptyCountryKept ==
    pc = "done" =>
        \A k \in AcceptedRows :
            rows[k].country_codes = NaN =>
                \E i \in 1..Len(output_file) :
                    LET out == OutEntries(output_file[i])
                        y == YearValue(rows[k])
                    IN  /\ output_file[i].author_id = rows[k].author_id
                        /\ SortedByYear(out)
                        /\ Len(SelectSeq(out, LAMBDA e : e.year = y /\ e.cc = EmptyMarker))
                             = Cardinality({ j \in AcceptedRows :
                                               /\ rows[j].author_id = rows[k].author_id
                                               /\ rows[j].country_codes = NaN
                                               /\ YearValue(rows[j]) = y })

\* A row without a country arrived first and stands last, after an event of
\* an earlier year.
C6_Witness ==
    /\ pc = "done"
    /\ \E i \in 1..Len(output_file) :
           LET out == OutEntries(output_file[i])
               mine == RowsOf(output_file[i].author_id)
           IN  /\ Len(out) >= 2
               /\ mine[1].country_codes = NaN
               /\ out[Len(out)].cc = EmptyMarker
               /\ out[1].year < out[Len(out)].year

WithoutBraces(t) == SelectSeq(t, LAMBDA c : c # "{" /\ c # "}")

RawTokens(cell) ==
    LET pieces == Split(cell, Comma)
    IN  [t \in 1..Len(pieces) |-> WithoutBraces(pieces[t])]

(* C7. The code tokens of a country field survive cleaning and             *)
(* serialization: the comma-separated tokens of an output entry are the    *)
(* comma-separated pieces of the raw field, braces taken off, in the same  *)
(* order and number.                                                       *)
C7_TokensPreserved ==
    pc = "done" =>
        \A i \in 1..Len(output_file) :
            LET out == OutEntries(output_file[i])
                mine == RowsOf(output_file[i].author_id)
            IN  \A y \in YearsOf(out) \cup { YearValue(mine[k]) : k \in 1..Len(mine) } :
                    LET outy == OfYear(out, y)
                        iny == SelectSeq(mine, LAMBDA r : YearValue(r) = y)
                    IN  /\ Len(outy) = Len(iny)
                        /\ \A k \in 1..Len(iny) :
                               iny[k].country_codes # NaN =>
                                   Split(outy[k].cc, Comma) = RawTokens(iny[k].country_codes)

\* A field of two codes is in an output sequence of several entries.
C7_Witness ==
    /\ pc = "done"
    /\ \E i \in 1..Len(output_file) :
           LET out == OutEntries(output_file[i])
           IN  /\ Len(out) >= 2
               /\ \E k \in 1..Len(out) : Split(out[k].cc, Comma) = <<US, FR>>

---------------------------------------------------------------------------
(* Properties of classify_career, under SpecClassify.  An entry is a       *)
(* country field as the sequence holds it between two ' -> '; like the     *)
(* code, the properties read it without the blanks around it.              *)

AllOrigin == \A i \in 1..Len(entries) : Strip(entries[i]) = FR

LastIsOrigin == Strip(entries[Len(entries)]) = FR

\* The hub is one of the pieces between the commas of some entry.
HubInJourney ==
    \E i \in 1..Len(entries) :
        \E t \in Range(Split(Strip(entries[i]), Comma)) : t = US

(* C8. classify_career is total: for every sequence, and so for every one  *)
(* whose first country is the origin, the call returns one of the six      *)
(* categories, not an exception and not another label.                     *)
C8_TotalSixCategories ==
    category # NotCalled => category \in AllCategories

\* A sequence that starts in the origin and holds a malformed code has been
\* classified.
C8_Witness ==
    /\ category \in AllCategories
    /\ entries[1] = FR
    /\ \E i \in 1..Len(entries) : entries[i] \in { <<"f", "r">>, <<>> }

(* C9. The result is 'Stayed in France' exactly when every entry is the    *)
(* origin code alone; such a sequence is never a round trip.               *)
C9_StayedIffAllOrigin ==
    category # NotCalled => (category = "Stayed in France" <=> AllOrigin)

\* Several entries, all of them the origin.
C9_Witness ==
    /\ category = "Stayed in France"
    /\ Len(entries) >= 2

(* C10. When not every entry is the origin and the last entry is the       *)
(* origin code alone, the result is 'Round-trip (via US)' if the hub is    *)
(* one of the comma-separated codes of some entry, and 'Round-trip (no     *)
(* US)' otherwise.                                                         *)
C10_RoundTrip ==
    (category # NotCalled /\ ~AllOrigin /\ LastIsOrigin) =>
        category = IF HubInJourney THEN "Round-trip (via US)" ELSE "Round-trip (no US)"

\* A round trip whose only mention of the hub is in a two-code entry.
C10_Witness ==
    /\ category = "Round-trip (via US)"
    /\ \A i \in 1..Len(entries) : entries[i] # US
    /\ \E i \in 1..Len(entries) : entries[i] = FR \o Comma \o US

---------------------------------------------------------------------------
(* The first country of a sequence, as the data model defines it: the      *)
(* first listed code of the first entry that is neither blank nor a        *)
(* placeholder.                                                            *)

IsPlaceholder(e) ==
    \/ Strip(e) = <<>>
    \/ Lower(Strip(e)) = empty_lower
    \/ Lower(Strip(e)) = EmptyMarker

HasFirstCountry(es) == \E i \in 1..Len(es) : ~IsPlaceholder(es[i])

FirstCandidate(es) ==
    CHOOSE i \in 1..Len(es) :
        ~IsPlaceholder(es[i]) /\ \A j \in 1..(i - 1) : IsPlaceholder(es[j])

FirstCountry(es) ==
    IF HasFirstCountry(es)
    THEN Strip(Split(Strip(es[FirstCandidate(es)]), Comma)[1])
    ELSE None

\* The codes of the last entry: its pieces between commas, without blanks.
LastCodes ==
    { Strip(t) : t \in Range(Split(Strip(entries[Len(entries)]), Comma)) }

(* C11. When not every entry is the origin and the last entry is not the   *)
(* origin code alone, the category is decided by the codes of the last     *)
(* entry, whatever the earlier entries: hub without origin gives           *)
(* 'Expatriate (to US)', neither gives 'Expatriate (abroad, no US)', and   *)
(* the origin with another code gives 'Complex/Ongoing Migration'.         *)
C11_LastEntryDecides ==
    (category # NotCalled /\ ~AllOrigin /\ ~LastIsOrigin) =>
        category = IF FR \in LastCodes THEN "Complex/Ongoing Migration"
                   ELSE IF US \in LastCodes THEN "Expatriate (to US)"
                   ELSE "Expatriate (abroad, no US)"

\* The hub is an earlier entry and the last entry names neither country.
C11_Witness ==
    /\ category = "Expatriate (abroad, no US)"
    /\ Len(entries) >= 2
    /\ entries[1] = US
    /\ entries[Len(entries)] = DE

(* C12. As claimed: called on a sequence whose first country is not the    *)
(* origin, classify_career returns none of the six categories.             *)
C12_FailsLoudly ==
    (category # NotCalled /\ FirstCountry(entries) # FR) =>
        category \notin AllCategories

(* C12, amended. Called on a sequence whose first country is not the       *)
(* origin, classify_career checks nothing: it returns one of the six       *)
(* categories by its usual rules, never 'Stayed in France'.                *)
C12_ClassifiesAnyway ==
    (category # NotCalled /\ FirstCountry(entries) # FR) =>
        category \in AllCategories \ {"Stayed in France"}

\* A sequence that starts in the hub and ends in the origin was classified.
C12_Witness ==
    /\ category = "Round-trip (via US)"
    /\ entries[1] = US
    /\ FirstCountry(entries) = US

(* C14. Both scans return the first listed code, trimmed, of the first     *)
(* entry that is neither blank nor 'empty' / '<empty>' in any case, also   *)
(* when that code is the empty string, and nothing when there is no such   *)
(* entry; so the two agree on every sequence.                              *)
C14_ScansFollowRule ==
    /\ first_main # NotScanned => first_main = FirstCountry(entries)
    /\ first_urls # NotScanned => first_urls = FirstCountry(entries)
    /\ (first_main # NotScanned /\ first_urls # NotScanned) => first_main = first_urls

\* Both scans skipped a placeholder in capitals and stopped at an entry
\* whose first code is blank.
C14_Witness ==
    /\ first_main = <<>>
    /\ first_urls = <<>>
    /\ Len(entries) >= 2
    /\ entries[1] = <<"E", "m", "p", "t", "y">>
    /\ entries[2] = Comma \o FR

---------------------------------------------------------------------------
(* The cohort table, stated on the rows of the input.                      *)

\* The entries of a row's country sequence.
EntriesOf(r) ==
    IF r.country_codes_sequence = NaN THEN <<>>
    ELSE Split(r.country_codes_sequence, Arrow)

\* The year of the row's first entry.
StartYear(r) == DigitsToInt(Split(r.publication_years_sequence, Arrow)[1])

\* The rows of the input that have both sequences.
Sequences == SelectSeq(vdf, LAMBDA r : r.publication_years_sequence # NaN
                                       /\ r.country_codes_sequence # NaN)

PastYearFilter == vpc \in {"post_1990", "starters", "classified", "percentages", "reindexed", "exit"}

PastOriginFilter == vpc \in {"starters", "classified", "percentages", "reindexed", "exit"}

(* C13. The origin filter admits, of the rows past the year filter,        *)
(* exactly those whose first country is the origin: '<empty> -> FR' and    *)
(* 'FR,DE' are admitted, a row without first country is not.               *)
C13_AdmitsByFirstCountry ==
    PastOriginFilter =>
        [i \in 1..Len(fr_starters) |-> fr_starters[i].country_codes_sequence]
          = LET admitted == SelectSeq(df_post_1990,
                                LAMBDA r : FirstCountry(EntriesOf(r)) = FR)
            IN  [i \in 1..Len(admitted) |-> admitted[i].country_codes_sequence]

(* C15. The year filter keeps, in order, exactly the sequences whose first *)
(* entry's year is greater than 1990, each keyed by that year: a start in  *)
(* 1990 is excluded, a start in 1991 is included.                          *)
C15_FloorExclusive ==
    PastYearFilter =>
        LET kept == SelectSeq(Sequences, LAMBDA r : StartYear(r) > 1990)
        IN  df_post_1990 =
                [i \in 1..Len(kept) |->
                    [min_year |-> StartYear(kept[i]),
                     country_codes_sequence |-> kept[i].country_codes_sequence]]

\* The input held a start in 1990 and a start in 1991; only the second was kept.
C15_Witness ==
    /\ PastYearFilter
    /\ \E i \in 1..Len(vdf) : vdf[i] = YRow(Y1990, FR)
    /\ \E i \in 1..Len(vdf) : vdf[i] = YRow(Y1991, FR)
    /\ Len(df_post_1990) = 1
    /\ df_post_1990[1].min_year = 1991

\* Starters of a bucket, and those of them in a category.
InBucket(y) == { i \in 1..Len(fr_starters) : fr_starters[i].min_year = y }

InBucketAs(y, c) == { i \in InBucket(y) : fr_starters[i].category = c }

RatAdd(a, b) == Ratio(a.num * b.den + b.num * a.den, a.den * b.den)

RECURSIVE RatSum(_, _)
RatSum(row, cats) ==
    IF cats = <<>> THEN Ratio(0, 1)
    ELSE RatAdd(row[Head(cats)], RatSum(row, Tail(cats)))

(* C16. After the reindex there is a row for every start year of a         *)
(* starter; each row has the six categories as keys; a category without    *)
(* starter in the bucket has value 0; each value is 100 * count / total of *)
(* the bucket; and the six values of a row add up to 100.                  *)
C16_SharesOfBucket ==
    vpc = "reindexed" =>
        /\ DOMAIN cohort_percentages = { fr_starters[i].min_year : i \in 1..Len(fr_starters) }
        /\ \A y \in DOMAIN cohort_percentages :
              LET row == cohort_percentages[y] IN
              /\ DOMAIN row = AllCategories
              /\ \A c \in AllCategories :
                    /\ row[c].den > 0
                    /\ row[c].num * Cardinality(InBucket(y))
                         = 100 * Cardinality(InBucketAs(y, c)) * row[c].den
                    /\ InBucketAs(y, c) = {} => row[c].num = 0
              /\ RatSum(row, all_categories).num = 100 * RatSum(row, all_categories).den

\* Two buckets; one holds two categories in equal shares; a category occurs
\* in one bucket only and another in none.
C16_Witness ==
    /\ vpc = "reindexed"
    /\ Cardinality(DOMAIN cohort_percentages) = 2
    /\ \E y \in DOMAIN cohort_percentages :
          /\ Cardinality(InBucketAs(y, "Stayed in France")) = 1
          /\ Cardinality(InBucketAs(y, "Expatriate (to US)")) = 1
    /\ \E y \in DOMAIN cohort_percentages : InBucketAs(y, "Expatriate (to US)") = {}

---------------------------------------------------------------------------
(* The output as a function of the input rows alone.                       *)

\* The accepted author ids among the first n rows, by first appearance.
RECURSIVE FirstSeen(_)
FirstSeen(n) ==
    IF n = 0 THEN <<>>
    ELSE LET prev == FirstSeen(n - 1) IN
         IF Valid(rows[n]) /\ rows[n].author_id \notin Range(prev)
         THEN Append(prev, rows[n].author_id)
         ELSE prev

\* The events by ascending year, those of one year in the order given.
RECURSIVE ByYears(_, _)
ByYears(evs, ys) ==
    IF ys = {} THEN <<>>
    ELSE LET y == CHOOSE y \in ys : \A z \in ys : y <= z
         IN  OfYear(evs, y) \o ByYears(evs, ys \ {y})

ExpectedRow(id) ==
    LET evs == ByYears(Arrival(id), YearsOf(Arrival(id)))
    IN  [author_id |-> id,
         publication_years_sequence |->
             Join([k \in 1..Len(evs) |-> IntToStr(evs[k].year)], Arrow),
         country_codes_sequence |->
             Join([k \in 1..Len(evs) |-> evs[k].cc], Arrow)]

ExpectedOutput ==
    [i \in 1..Len(FirstSeen(Len(rows))) |-> ExpectedRow(FirstSeen(Len(rows))[i])]

\* An accepted row whose year is not finite is in the input.
HasInfiniteYear ==
    \E k \in AcceptedRows : to_numeric(rows[k].publication_year).kind = "inf"

(* C17. The result of a run is a function of the input rows alone: a run   *)
(* that ends writes the authors in order of first appearance, each with    *)
(* the year and country strings of its events in stable year order, and a  *)
(* run fails exactly on an input with a non-finite year; the chunk size    *)
(* has no part in either, so two runs on the same rows agree.              *)
C17_OutputFunctionOfRows ==
    /\ pc = "done" => (output_file = ExpectedOutput /\ ~HasInfiniteYear)
    /\ pc = "failed" => (output_file = NotWritten /\ HasInfiniteYear)

\* A finished run in chunks of one row, on two authors whose rows alternate.
C17_Witness ==
    /\ pc = "done"
    /\ chunk_size = 1
    /\ Len(rows) = 3
    /\ Len(output_file) = 2
    /\ rows[1].author_id = rows[3].author_id
    /\ rows[1].author_id # rows[2].author_id

(* C18. As claimed: while and right after the chunks are consumed, the     *)
(* dictionary holds at most (chunk size) + (number of distinct authors     *)
(* seen so far) events.                                                    *)
C18_BoundedByBatchAndAuthors ==
    pc \in {"reading", "aggregating"} =>
        TotalRecords(author_data) <= chunk_size + Len(author_data)

(* C18, amended. The dictionary holds one event for every accepted row     *)
(* consumed so far, so what it holds grows with the rows consumed; only    *)
(* the chunk being read is bounded by the chunk size.                      *)
C18_HoldsEveryAcceptedRow ==
    /\ TotalRecords(author_data) = Cardinality({ k \in AcceptedRows : k <= pos })
    /\ Len(NextChunk) <= chunk_size

\* Three rows of one author were read in chunks of one row.
C18_Witness ==
    /\ pc = "aggregating"
    /\ chunk_size = 1
    /\ Len(author_data) = 1
    /\ TotalRecords(author_data) = 3

(* C19. The output is all or nothing: it is written only by a run that has *)
(* consumed every chunk and built every sequence, and then it is the whole *)
(* result with exit status 0; a run that cannot open the input, or fails   *)
(* while reading a chunk, exits with status 1 and writes no row, whatever  *)
(* it had aggregated.                                                      *)
C19_AllOrNothing ==
    /\ output_file # NotWritten =>
          /\ pc = "done"
          /\ exit_status = 0
          /\ pos = Len(rows)
          /\ built = Len(author_data)
          /\ output_file = final_results
          /\ { output_file[i].author_id : i \in 1..Len(output_file) } = AcceptedIds
    /\ pc = "done" => output_file # NotWritten
    /\ pc = "failed" => (exit_status = 1 /\ output_file = NotWritten)

\* A read failed after a chunk had been aggregated.
C19_Witness ==
    /\ pc = "failed"
    /\ pos > 0
    /\ author_data # <<>>
    /\ ~HasInfiniteYear
    /\ output_file = NotWritten

---------------------------------------------------------------------------
(* The token bucket.                                                       *)

\* The tokens granted at the ticks t1..t2.
RECURSIVE GrantedIn(_, _)
GrantedIn(t1, t2) ==
    IF t1 > t2 THEN 0 ELSE grants[t1] + GrantedIn(t1 + 1, t2)

\* What the bucket held for the latest call once the elapsed time was
\* credited: Rate tokens per second, up to the capacity of 8.
Available ==
    LET credited == last_call.tokens + (last_call.at - last_call.last_update) * Rate
    IN  IF credited > 8 * TicksPerSecond THEN 8 * TicksPerSecond ELSE credited

(* C20. The bucket always holds between 0 and capacity tokens; a call      *)
(* acquire(n) succeeds exactly when, the elapsed time credited, at least n *)
(* tokens are there, and then takes exactly n; a call that fails takes     *)
(* nothing; and the tokens granted over any window of length T are at most *)
(* capacity + rate * T.                                                    *)
C20_TokenBucket ==
    /\ 0 <= tokens /\ tokens <= 8 * TicksPerSecond
    /\ last_call # NoCall =>
          /\ last_call.ok <=> Available >= last_call.n * TicksPerSecond
          /\ last_call.ok => tokens = Available - last_call.n * TicksPerSecond
          /\ ~last_call.ok => tokens = Available
    /\ \A t1, t2 \in 0..now :
          t1 <= t2 =>
              GrantedIn(t1, t2) * TicksPerSecond
                  <= 8 * TicksPerSecond + Rate * (t2 - t1)

\* The bucket was emptied in a burst, a thread was refused, and after a
\* wait the other thread was granted a token the refill had brought.
C20_Witness ==
    /\ grants[0] = 8
    /\ now >= 2
    /\ grants[now] = 1
    /\ last_call.ok
    /\ last_call.tokens < TicksPerSecond
    /\ tokens = 0

---------------------------------------------------------------------------
(* wait_for_token.                                                         *)

(* C21. Every call of wait_for_token(n), n <= capacity, returns in the     *)
(* end, whatever the other threads do on the same limiter, and at its      *)
(* return exactly n tokens have been deducted for it, once.                *)
C21_WaitReturns ==
    \A t \in Threads :
        /\ [](wpc[t] = "returned" => wtaken[t] = wn[t])
        /\ (wpc[t] = "acquire") ~> (wpc[t] = "returned")

(* C22. The argument wait_for_token gives to sleep is never negative, in   *)
(* any interleaving with the other threads of the limiter.                 *)
C22_SleepNotNegative ==
    \A t \in Threads : wsleep[t] >= 0

(* C23. For classify_career the placeholder '<empty>' is a location like   *)
(* any other, neither origin nor hub: a sequence that starts with FR and   *)
(* has a placeholder entry is never 'Stayed in France', and when its last  *)
(* entry is the placeholder it is 'Expatriate (abroad, no US)', whatever   *)
(* the other entries are.                                                  *)
C23_PlaceholderIsALocation ==
    (/\ category # NotCalled
     /\ entries # <<>>
     /\ entries[1] = FR
     /\ \E i \in 1..Len(entries) : entries[i] = EmptyMarker) =>
        /\ category # "Stayed in France"
        /\ entries[Len(entries)] = EmptyMarker => category = "Expatriate (abroad, no US)"

\* A sequence whose entries are all FR but the last, the placeholder.
C23_Witness ==
    /\ category = "Expatriate (abroad, no US)"
    /\ Len(entries) = 3
    /\ entries[1] = FR
    /\ entries[2] = FR
    /\ entries[3] = EmptyMarker

(* C24. When main has returned and --keep-temp was not given, none of the  *)
(* five intermediate files is left, whether main completed or gave up      *)
(* after one of its six steps.                                             *)
C24_NoTempFileLeft ==
    (mpc = "returned" /\ ~keep_temp) => files \cap TempFiles = {}

====
